---- MODULE Spec2Model ----
(***************************************************************************)
(* A model of package process (src/process.go): StartProcess, Kill, the    *)
(* background wait task, the messageWriter relays, the uniq id source and  *)
(* the limiter.                                                            *)
(*                                                                         *)
(* Channels are unbuffered: a send is one step taken together with the     *)
(* receiver, and a sender whose peer never receives stays at its send.     *)
(* The library os/exec is modelled by its documented behaviour: the child  *)
(* writes into one pipe per output stream, one copying goroutine per pipe  *)
(* reads what is available and calls Write on the messageWriter, and       *)
(* Cmd.Wait returns once the child has exited and both copies have hit     *)
(* end of file.                                                            *)
(***************************************************************************)
EXTENDS Integers, Sequences, FiniteSets, TLC

\* ------------------------------------------------------------- bounds
NumCalls == 2      \* StartProcess calls
NumKillers == 2    \* goroutines that call Kill, once each
MaxWrites == 2     \* writes a child makes to its output streams
MaxOver == 2       \* messages fed to a limiter beyond msgLimit

\* const msgLimit: max number of messages to send per session
msgLimit == 1000

Calls == 1..NumCalls
Killers == 1..NumKillers
Streams == {"stdout", "stderr"}

\* Channels. OutCh(c) is a channel made by the caller of call c for that
\* call alone; LimCh is the channel ch that limiter makes and returns; DestCh
\* and KillCh are the dest and kill channels passed to limiter.
OutCh(c) == <<"out", c>>
LimCh == <<"ch", 0>>
DestCh == <<"dest", 0>>
KillCh == <<"kill", 0>>
Chans == {OutCh(c) : c \in Calls} \cup {LimCh, DestCh, KillCh}

\* ------------------------------------------------------------- inputs
\* The args slices callers pass: the empty one and a command.
ArgsSet == {<< >>, <<"./barbar">>}
\* What a child writes in one write call.
Chunks == {"hello there\n", "hello cat\n"}
\* The errors cmd.Start can return (executable missing, permission denied).
SpawnErrs == {"fork/exec ./does-not-exist: no such file or directory"}
\* The errors cmd.Wait can return for a child that exited by itself.
ExitErrs == {"exit status 1"}
\* The error cmd.Wait returns for a child ended by Process.Kill.
KilledErr == "signal: killed"
\* The nil error.
Nil == "<nil>"

VARIABLES
  uniqI,      \* i of the goroutine of init: the next value it sends on uniq
  pc,         \* pc[c]: where StartProcess call c is
  args,       \* args[c]: the args of call c
  perr,       \* perr[c]: the error p.start returned
  id,         \* id[c]: p.id
  uval,       \* uval[c]: the value call c received from uniq
  Done,       \* Done[c]: p.Done, "open" or "closed"
  run,        \* run[c]: p.run, "nil" or "cmd"
  ret,        \* ret[c]: what StartProcess returned: "none" (not yet), "nil" or "p"
  child,      \* child[c]: the operating system process: "none", "running", "exited"
  cerr,       \* cerr[c]: the child's exit status as Wait reports it
  nwrites,    \* nwrites[c]: the writes the child has made that count for MaxWrites
  pipe,       \* pipe[c][s]: the chunks the child wrote on s and the copy has not read
  relay,      \* relay[c][s]: the copying goroutine of s: [st, buf]
  writes,     \* writes[c][s]: the arguments of the Write calls made on relay s
  wrets,      \* wrets[c][s]: what those Write calls returned
  wpc,        \* wpc[c]: where the goroutine p.wait() is
  werr,       \* werr[c]: what p.run.Wait() returned
  out,        \* out[c]: the channel passed to call c
  closed,     \* closed[ch]: whether channel ch is closed
  sent,       \* sent[ch]: the messages sent on (and received from) channel ch
  kpc,        \* kpc[k]: where killer k is in Kill
  ktarget,    \* ktarget[k]: the call whose handle killer k passed to Kill
  ksaw,       \* ksaw[k]: the state of the child when killer k called Kill
  kills,      \* kills[c]: the Kill calls on call c's handle that have returned
  lpc,        \* where the goroutine of limiter is
  ln,         \* n of limiter
  lm          \* m of limiter: the message it is handling

pvars == <<pc, args, perr, id, uval, Done, run, ret>>
cvars == <<child, cerr, nwrites, pipe, relay, writes, wrets>>
wvars == <<wpc, werr>>
chvars == <<out, closed, sent>>
kvars == <<kpc, ktarget, ksaw, kills>>
lvars == <<lpc, ln, lm>>
vars == <<uniqI, pvars, cvars, wvars, chvars, kvars, lvars>>

\* ------------------------------------------------------------- Message
Message(i, k, b) == [Id |-> i, Kind |-> k, Body |-> b]

\* string(r) of an int: the UTF-8 encoding of the code point r, and of U+FFFD
\* when r is no valid code point (a surrogate half, negative, above U+10FFFF).
RuneError == <<239, 191, 189>>

IntToString(r) ==
  IF r < 0 \/ r > 1114111 \/ (r >= 55296 /\ r <= 57343) THEN RuneError
  ELSE IF r < 128 THEN <<r>>
  ELSE IF r < 2048 THEN <<192 + (r \div 64), 128 + (r % 64)>>
  ELSE IF r < 65536
    THEN <<224 + (r \div 4096), 128 + ((r \div 64) % 64), 128 + (r % 64)>>
  ELSE <<240 + (r \div 262144), 128 + ((r \div 4096) % 64),
         128 + ((r \div 64) % 64), 128 + (r % 64)>>

\* p.end with the body left out.
EndMessage_NoBody(i, err) == Message(i, "end", "")

\* p.end formatting the error whether or not it is nil.
EndMessage_NilText(i, err) == Message(i, "end", err)

\* The message p.end(err) builds: the body is err.Error(), or empty for nil.
EndMessage(i, err) == Message(i, "end", IF err # Nil THEN err ELSE "")

\* Write with the body left out.
WriteMessage_NoBody(i, kind, b) == Message(i, kind, "")

\* The message messageWriter.Write(b) builds.
WriteMessage(i, kind, b) == Message(i, kind, b)

\* Write reporting a short write.
WriteReturn_Short(b) == <<0, "short write">>

\* What messageWriter.Write(b) returns: len(b) and a nil error.
WriteReturn(b) == <<Len(b), Nil>>

\* The switch asking for a kill at every message over the limit.
limiterCase_KillAgain(n, m) ==
  IF n < msgLimit \/ m.Kind = "end" THEN "dest"
  ELSE "kill"

\* The switch testing the counter before the kind.
limiterCase_KillAtEnd(n, m) ==
  IF n < msgLimit THEN "dest"
  ELSE IF n = msgLimit THEN "kill"
  ELSE IF m.Kind = "end" THEN "dest"
  ELSE "drop"

\* The branch limiter's switch takes for message m with n messages handled.
limiterCase(n, m) ==
  IF n < msgLimit \/ m.Kind = "end" THEN "dest"
  ELSE IF n = msgLimit THEN "kill"
  ELSE "drop"

\* for m := range ch, the switch and, for a message neither forwarded nor
\* answered with a kill, n++.
limiterReceive(m) ==
  /\ lpc = "range"
  /\ lm' = m
  /\ lpc' = IF limiterCase(ln, m) = "drop" THEN "range" ELSE limiterCase(ln, m)
  /\ ln' = IF limiterCase(ln, m) = "drop" THEN ln + 1 ELSE ln

\* A message handed over on channel ch.
Deliver(ch, m) ==
  /\ ~closed[ch]
  /\ sent' = [sent EXCEPT ![ch] = Append(@, m)]

\* ch <- m on an unbuffered channel: one step with the receiver, which is the
\* limiter for LimCh and the consumer of the channel otherwise.
Send(ch, m) ==
  /\ Deliver(ch, m)
  /\ IF ch = LimCh THEN limiterReceive(m) ELSE UNCHANGED lvars

\* ------------------------------------------------------------- Init
NoRelay == [st |-> "none", buf |-> ""]
NoMessage == Message(<< >>, "", "")

\* Everything but uniq's counter, as the package and its callers start.
InitRest ==
  /\ pc = [c \in Calls |-> "idle"]
  /\ args = [c \in Calls |-> << >>]
  /\ perr = [c \in Calls |-> Nil]
  /\ id = [c \in Calls |-> << >>]
  /\ uval = [c \in Calls |-> -1]
  /\ Done = [c \in Calls |-> "open"]
  /\ run = [c \in Calls |-> "nil"]
  /\ ret = [c \in Calls |-> "none"]
  /\ child = [c \in Calls |-> "none"]
  /\ cerr = [c \in Calls |-> Nil]
  /\ nwrites = [c \in Calls |-> 0]
  /\ pipe = [c \in Calls |-> [s \in Streams |-> << >>]]
  /\ relay = [c \in Calls |-> [s \in Streams |-> NoRelay]]
  /\ writes = [c \in Calls |-> [s \in Streams |-> << >>]]
  /\ wrets = [c \in Calls |-> [s \in Streams |-> << >>]]
  /\ wpc = [c \in Calls |-> "none"]
  /\ werr = [c \in Calls |-> Nil]
  /\ out = [c \in Calls |-> OutCh(c)]
  /\ closed = [ch \in Chans |-> FALSE]
  /\ sent = [ch \in Chans |-> << >>]
  /\ kpc = [k \in Killers |-> "idle"]
  /\ ktarget = [k \in Killers |-> 0]
  /\ ksaw = [k \in Killers |-> "none"]
  /\ kills = [c \in Calls |-> 0]
  /\ lpc = "range"
  /\ ln = 0
  /\ lm = NoMessage

\* The goroutine of init starts at i = 0.
Init == uniqI = 0 /\ InitRest

\* ------------------------------------------------------------- StartProcess
\* A caller enters StartProcess(dir, a, out[c]); the Process literal receives
\* from uniq, which hands over i and moves on to i+1.
StartProcess(c, a) ==
  /\ pc[c] = "idle"
  /\ args' = [args EXCEPT ![c] = a]
  /\ uval' = [uval EXCEPT ![c] = uniqI]
  /\ id' = [id EXCEPT ![c] = IntToString(uniqI)]
  /\ uniqI' = uniqI + 1
  /\ pc' = [pc EXCEPT ![c] = "start"]
  /\ UNCHANGED <<perr, Done, run, ret, cvars, wvars, chvars, kvars, lvars>>

\* p.start with no arguments: the error, and nothing is built or started.
startNoArgs(c) ==
  /\ pc[c] = "start"
  /\ Len(args[c]) = 0
  /\ perr' = [perr EXCEPT ![c] = "No arguments found"]
  /\ pc' = [pc EXCEPT ![c] = "end"]
  /\ UNCHANGED <<uniqI, args, id, uval, Done, run, ret, cvars, wvars, chvars, kvars, lvars>>

\* p.start: cmd.Start() fails; no child and no copying goroutine exists.
startFail(c, e) ==
  /\ pc[c] = "start"
  /\ Len(args[c]) # 0
  /\ perr' = [perr EXCEPT ![c] = e]
  /\ pc' = [pc EXCEPT ![c] = "end"]
  /\ UNCHANGED <<uniqI, args, id, uval, Done, run, ret, cvars, wvars, chvars, kvars, lvars>>

\* p.start: cmd.Start() succeeds: the child runs, its two pipes are copied to
\* the messageWriters p.cmd made, and p.run is set.
startOk(c) ==
  /\ pc[c] = "start"
  /\ Len(args[c]) # 0
  /\ child' = [child EXCEPT ![c] = "running"]
  /\ relay' = [relay EXCEPT ![c] = [s \in Streams |-> [st |-> "read", buf |-> ""]]]
  /\ run' = [run EXCEPT ![c] = "cmd"]
  /\ pc' = [pc EXCEPT ![c] = "spawned"]
  /\ UNCHANGED <<uniqI, args, perr, id, uval, Done, ret, cerr, nwrites, pipe,
                 writes, wrets, wvars, chvars, kvars, lvars>>

\* p.end(err) on the failure path: the end message is sent on out.
StartProcessEnd(c) ==
  /\ pc[c] = "end"
  /\ Send(out[c], EndMessage(id[c], perr[c]))
  /\ pc' = [pc EXCEPT ![c] = "close"]
  /\ UNCHANGED <<uniqI, args, perr, id, uval, Done, run, ret, cvars, wvars,
                 out, closed, kvars>>

\* StartProcess closing out before p.end(err).
StartProcessFail_CloseFirst(c) ==
  /\ pc[c] \in {"end", "close"}
  /\ ~closed[out[c]]
  /\ closed' = [closed EXCEPT ![out[c]] = TRUE]
  /\ ret' = [ret EXCEPT ![c] = "nil"]
  /\ pc' = [pc EXCEPT ![c] = "returned"]
  /\ UNCHANGED <<uniqI, args, perr, id, uval, Done, run, cvars, wvars, out, sent, kvars, lvars>>

\* close(out); return nil.
StartProcessFail(c) ==
  /\ pc[c] = "close"
  /\ ~closed[out[c]]
  /\ closed' = [closed EXCEPT ![out[c]] = TRUE]
  /\ ret' = [ret EXCEPT ![c] = "nil"]
  /\ pc' = [pc EXCEPT ![c] = "returned"]
  /\ UNCHANGED <<uniqI, args, perr, id, uval, Done, run, cvars, wvars, out, sent, kvars, lvars>>

\* StartProcess going on to go p.wait(); return p whatever p.start returned.
StartProcessOk_IgnoresErr(c) ==
  /\ pc[c] \in {"spawned", "end"}
  /\ wpc' = [wpc EXCEPT ![c] = "Wait"]
  /\ ret' = [ret EXCEPT ![c] = "p"]
  /\ pc' = [pc EXCEPT ![c] = "returned"]
  /\ UNCHANGED <<uniqI, args, perr, id, uval, Done, run, cvars, werr, chvars, kvars, lvars>>

\* StartProcess calling p.run.Wait() itself before it returns p.
StartProcessOk_Waits(c) ==
  /\ pc[c] = "spawned"
  /\ child[c] = "exited"
  /\ wpc' = [wpc EXCEPT ![c] = "Wait"]
  /\ ret' = [ret EXCEPT ![c] = "p"]
  /\ pc' = [pc EXCEPT ![c] = "returned"]
  /\ UNCHANGED <<uniqI, args, perr, id, uval, Done, run, cvars, werr, chvars, kvars, lvars>>

\* go p.wait(); return p.
StartProcessOk(c) ==
  /\ pc[c] = "spawned"
  /\ wpc' = [wpc EXCEPT ![c] = "Wait"]
  /\ ret' = [ret EXCEPT ![c] = "p"]
  /\ pc' = [pc EXCEPT ![c] = "returned"]
  /\ UNCHANGED <<uniqI, args, perr, id, uval, Done, run, cvars, werr, chvars, kvars, lvars>>

\* ------------------------------------------------------------- the child
\* The child writes chunk b on stream s.
ChildWrite(c, s, b) ==
  /\ child[c] = "running"
  /\ nwrites[c] < MaxWrites
  /\ nwrites' = [nwrites EXCEPT ![c] = @ + 1]
  /\ pipe' = [pipe EXCEPT ![c][s] = Append(@, b)]
  /\ UNCHANGED <<uniqI, pvars, child, cerr, relay, writes, wrets, wvars, chvars, kvars, lvars>>

\* The child exits by itself, cleanly (e = Nil) or not.
ChildExit(c, e) ==
  /\ child[c] = "running"
  /\ child' = [child EXCEPT ![c] = "exited"]
  /\ cerr' = [cerr EXCEPT ![c] = e]
  /\ UNCHANGED <<uniqI, pvars, nwrites, pipe, relay, writes, wrets, wvars, chvars, kvars, lvars>>

\* The concatenation of the chunks q.
RECURSIVE Concat(_)
Concat(q) == IF q = << >> THEN "" ELSE Head(q) \o Concat(Tail(q))

\* The copying goroutine of stream s reads the first n chunks waiting in the
\* pipe as one buffer b and calls Write(b) on the messageWriter.
RelayRead(c, s, n) ==
  /\ relay[c][s].st = "read"
  /\ n \in 1..Len(pipe[c][s])
  /\ LET b == Concat(SubSeq(pipe[c][s], 1, n)) IN
       /\ relay' = [relay EXCEPT ![c][s] = [st |-> "Write", buf |-> b]]
       /\ writes' = [writes EXCEPT ![c][s] = Append(@, b)]
  /\ pipe' = [pipe EXCEPT ![c][s] = SubSeq(@, n + 1, Len(@))]
  /\ UNCHANGED <<uniqI, pvars, child, cerr, nwrites, wrets, wvars, chvars, kvars, lvars>>

\* messageWriter.Write(b): one message of the writer's id and kind is sent on
\* out, and len(b), nil is returned.
Write(c, s) ==
  /\ relay[c][s].st = "Write"
  /\ Send(out[c], WriteMessage(id[c], s, relay[c][s].buf))
  /\ wrets' = [wrets EXCEPT ![c][s] = Append(@, WriteReturn(relay[c][s].buf))]
  /\ relay' = [relay EXCEPT ![c][s] = [st |-> "read", buf |-> ""]]
  /\ UNCHANGED <<uniqI, pvars, child, cerr, nwrites, pipe, writes, wvars,
                 out, closed, kvars>>

\* The copying goroutine reads end of file: the child has exited and the pipe
\* is empty.
RelayEOF(c, s) ==
  /\ relay[c][s].st = "read"
  /\ child[c] = "exited"
  /\ pipe[c][s] = << >>
  /\ relay' = [relay EXCEPT ![c][s] = [st |-> "eof", buf |-> ""]]
  /\ UNCHANGED <<uniqI, pvars, child, cerr, nwrites, pipe, writes, wrets, wvars,
                 chvars, kvars, lvars>>

\* ------------------------------------------------------------- wait
\* Wait returning at the child's exit, the copies still running.
WaitReturns_NoDrain(c) == child[c] = "exited"

\* p.run.Wait() returns: the child has exited and both copies are complete.
WaitReturns(c) ==
  /\ child[c] = "exited"
  /\ \A s \in Streams : relay[c][s].st = "eof"

\* wait going from p.run.Wait() to close(p.Done) without p.end.
wait_SkipsEnd(c) ==
  /\ wpc[c] = "Wait"
  /\ WaitReturns(c)
  /\ werr' = [werr EXCEPT ![c] = cerr[c]]
  /\ wpc' = [wpc EXCEPT ![c] = "close"]
  /\ UNCHANGED <<uniqI, pvars, cvars, chvars, kvars, lvars>>

\* wait: p.run.Wait() returns its error.
wait(c) ==
  /\ wpc[c] = "Wait"
  /\ WaitReturns(c)
  /\ werr' = [werr EXCEPT ![c] = cerr[c]]
  /\ wpc' = [wpc EXCEPT ![c] = "end"]
  /\ UNCHANGED <<uniqI, pvars, cvars, chvars, kvars, lvars>>

\* wait: p.end(err) sends the end message on out.
end(c) ==
  /\ wpc[c] = "end"
  /\ Send(out[c], EndMessage(id[c], werr[c]))
  /\ wpc' = [wpc EXCEPT ![c] = "close"]
  /\ UNCHANGED <<uniqI, pvars, cvars, werr, out, closed, kvars>>

\* wait without close(p.Done).
closeDone_Forgotten(c) ==
  /\ wpc[c] = "close"
  /\ wpc' = [wpc EXCEPT ![c] = "done"]
  /\ UNCHANGED <<uniqI, pvars, cvars, werr, chvars, kvars, lvars>>

\* wait closing out as well as p.Done.
closeDone_ClosesOut(c) ==
  /\ wpc[c] = "close"
  /\ Done' = [Done EXCEPT ![c] = "closed"]
  /\ closed' = [closed EXCEPT ![out[c]] = TRUE]
  /\ wpc' = [wpc EXCEPT ![c] = "done"]
  /\ UNCHANGED <<uniqI, pc, args, perr, id, uval, run, ret, cvars, werr, out, sent, kvars, lvars>>

\* wait: close(p.Done).
closeDone(c) ==
  /\ wpc[c] = "close"
  /\ Done' = [Done EXCEPT ![c] = "closed"]
  /\ wpc' = [wpc EXCEPT ![c] = "done"]
  /\ UNCHANGED <<uniqI, pc, args, perr, id, uval, run, ret, cvars, werr, chvars, kvars, lvars>>

\* ------------------------------------------------------------- Kill
\* Kill on the nil handle going on to <-p.Done.
KillNil_Waits(k, c) ==
  /\ kpc[k] = "idle"
  /\ ret[c] = "nil"
  /\ kpc' = [kpc EXCEPT ![k] = "Done"]
  /\ ktarget' = [ktarget EXCEPT ![k] = c]
  /\ UNCHANGED <<uniqI, pvars, cvars, wvars, chvars, ksaw, kills, lvars>>

\* Kill on the nil handle StartProcess returned for call c: it returns at once.
KillNil(k, c) ==
  /\ kpc[k] = "idle"
  /\ ret[c] = "nil"
  /\ kpc' = [kpc EXCEPT ![k] = "returned"]
  /\ ktarget' = [ktarget EXCEPT ![k] = c]
  /\ kills' = [kills EXCEPT ![c] = @ + 1]
  /\ UNCHANGED <<uniqI, pvars, cvars, wvars, chvars, ksaw, lvars>>

\* Kill on the handle p of call c, past the nil test: p.run.Process.Kill()
\* ends a running child and leaves one that has exited as it is (the error is
\* dropped); Kill goes on to <-p.Done.
Kill(k, c) ==
  /\ kpc[k] = "idle"
  /\ ret[c] = "p"
  /\ IF child[c] = "running"
     THEN /\ child' = [child EXCEPT ![c] = "exited"]
          /\ cerr' = [cerr EXCEPT ![c] = KilledErr]
     ELSE UNCHANGED <<child, cerr>>
  /\ kpc' = [kpc EXCEPT ![k] = "Done"]
  /\ ktarget' = [ktarget EXCEPT ![k] = c]
  /\ ksaw' = [ksaw EXCEPT ![k] = child[c]]
  /\ UNCHANGED <<uniqI, pvars, nwrites, pipe, relay, writes, wrets, wvars, chvars,
                 kills, lvars>>

\* Kill without <-p.Done.
KillDone_NoWait(k) ==
  /\ kpc[k] = "Done"
  /\ kpc' = [kpc EXCEPT ![k] = "returned"]
  /\ kills' = [kills EXCEPT ![ktarget[k]] = @ + 1]
  /\ UNCHANGED <<uniqI, pvars, cvars, wvars, chvars, ktarget, ksaw, lvars>>

\* <-p.Done: blocks until Done is closed, then Kill returns.
KillDone(k) ==
  /\ kpc[k] = "Done"
  /\ Done[ktarget[k]] = "closed"
  /\ kpc' = [kpc EXCEPT ![k] = "returned"]
  /\ kills' = [kills EXCEPT ![ktarget[k]] = @ + 1]
  /\ UNCHANGED <<uniqI, pvars, cvars, wvars, chvars, ktarget, ksaw, lvars>>

\* ------------------------------------------------------------- Spec
\* Spec follows one StartProcess call, on an out channel of its own, through
\* its whole life together with the Kill calls on its handle. Calls share no
\* state but uniq, which SpecIds covers.
Followed == {1}

Next ==
  \/ \E c \in Followed, a \in ArgsSet : StartProcess(c, a)
  \/ \E c \in Followed : startNoArgs(c)
  \/ \E c \in Followed, e \in SpawnErrs : startFail(c, e)
  \/ \E c \in Followed : startOk(c)
  \/ \E c \in Followed : StartProcessEnd(c)
  \/ \E c \in Followed : StartProcessFail(c)
  \/ \E c \in Followed : StartProcessOk(c)
  \/ \E c \in Followed, s \in Streams, b \in Chunks : ChildWrite(c, s, b)
  \/ \E c \in Followed, e \in ExitErrs \cup {Nil} : ChildExit(c, e)
  \/ \E c \in Followed, s \in Streams, n \in 1..MaxWrites : RelayRead(c, s, n)
  \/ \E c \in Followed, s \in Streams : Write(c, s)
  \/ \E c \in Followed, s \in Streams : RelayEOF(c, s)
  \/ \E c \in Followed : wait(c)
  \/ \E c \in Followed : end(c)
  \/ \E c \in Followed : closeDone(c)
  \/ \E k \in Killers, c \in Followed : KillNil(k, c)
  \/ \E k \in Killers, c \in Followed : Kill(k, c)
  \/ \E k \in Killers : KillDone(k)

Spec == Init /\ [][Next]_vars

\* ------------------------------------------------------------- limiter
\* The goroutine going back to range after it forwarded an end message.
limiterDest_GoesOn ==
  /\ lpc = "dest"
  /\ Deliver(DestCh, lm)
  /\ lpc' = "range"
  /\ ln' = ln + 1
  /\ UNCHANGED <<uniqI, pvars, cvars, wvars, out, closed, kvars, lm>>

\* dest <- m; after an end message the goroutine returns, else n++.
limiterDest ==
  /\ lpc = "dest"
  /\ Deliver(DestCh, lm)
  /\ lpc' = IF lm.Kind = "end" THEN "returned" ELSE "range"
  /\ ln' = IF lm.Kind = "end" THEN ln ELSE ln + 1
  /\ UNCHANGED <<uniqI, pvars, cvars, wvars, out, closed, kvars, lm>>

\* The limiter sending its kill message on dest.
limiterKill_OnDest ==
  /\ lpc = "kill"
  /\ Deliver(DestCh, Message(lm.Id, "kill", ""))
  /\ lpc' = "range"
  /\ ln' = ln + 1
  /\ UNCHANGED <<uniqI, pvars, cvars, wvars, out, closed, kvars, lm>>

\* kill <- &Message{Id: m.Id, Kind: "kill"}; n++.
limiterKill ==
  /\ lpc = "kill"
  /\ Deliver(KillCh, Message(lm.Id, "kill", ""))
  /\ lpc' = "range"
  /\ ln' = ln + 1
  /\ UNCHANGED <<uniqI, pvars, cvars, wvars, out, closed, kvars, lm>>

\* The process whose output feeds the limiter, seen from the limiter: it sends
\* stdout and stderr messages carrying its id and then its end message, and
\* nothing after that. Its k-th message is a function of k.
FeedId == IntToString(0)

FeedMessage(k) ==
  Message(FeedId,
          IF k % 2 = 1 THEN "stdout" ELSE "stderr",
          IF k % 3 = 0 THEN "hello cat\n" ELSE "hello there\n")

EndFed ==
  /\ sent[LimCh] # << >>
  /\ sent[LimCh][Len(sent[LimCh])].Kind = "end"

Feed ==
  /\ ~EndFed
  /\ Len(sent[LimCh]) < msgLimit + MaxOver
  /\ Send(LimCh, FeedMessage(Len(sent[LimCh]) + 1))
  /\ UNCHANGED <<uniqI, pvars, cvars, wvars, out, closed, kvars>>

FeedEnd(e) ==
  /\ ~EndFed
  /\ Send(LimCh, EndMessage(FeedId, e))
  /\ UNCHANGED <<uniqI, pvars, cvars, wvars, out, closed, kvars>>

NextLimiter ==
  \/ Feed
  \/ \E e \in {Nil, KilledErr} : FeedEnd(e)
  \/ limiterDest
  \/ limiterKill

\* The limiter as limiter() starts it, and as it is after its feeder's first
\* msgLimit - 2 messages, all forwarded: a state the first start reaches, from
\* which the messages around the limit are few steps away.
LimiterStarts == {0, msgLimit - 2}

InitLimiter ==
  /\ uniqI = 0
  /\ pc = [c \in Calls |-> "idle"]
  /\ args = [c \in Calls |-> << >>]
  /\ perr = [c \in Calls |-> Nil]
  /\ id = [c \in Calls |-> << >>]
  /\ uval = [c \in Calls |-> -1]
  /\ Done = [c \in Calls |-> "open"]
  /\ run = [c \in Calls |-> "nil"]
  /\ ret = [c \in Calls |-> "none"]
  /\ child = [c \in Calls |-> "none"]
  /\ cerr = [c \in Calls |-> Nil]
  /\ nwrites = [c \in Calls |-> 0]
  /\ pipe = [c \in Calls |-> [s \in Streams |-> << >>]]
  /\ relay = [c \in Calls |-> [s \in Streams |-> NoRelay]]
  /\ writes = [c \in Calls |-> [s \in Streams |-> << >>]]
  /\ wrets = [c \in Calls |-> [s \in Streams |-> << >>]]
  /\ wpc = [c \in Calls |-> "none"]
  /\ werr = [c \in Calls |-> Nil]
  /\ out = [c \in Calls |-> OutCh(c)]
  /\ closed = [ch \in Chans |-> FALSE]
  /\ kpc = [k \in Killers |-> "idle"]
  /\ ktarget = [k \in Killers |-> 0]
  /\ ksaw = [k \in Killers |-> "none"]
  /\ kills = [c \in Calls |-> 0]
  /\ lpc = "range"
  /\ ln \in LimiterStarts
  /\ lm = IF ln = 0 THEN NoMessage ELSE FeedMessage(ln)
  /\ sent = [ch \in Chans |->
               IF ch \in {LimCh, DestCh} THEN [k \in 1..ln |-> FeedMessage(k)]
               ELSE << >>]

\* One limiter and the process feeding it.
SpecLimiter == InitLimiter /\ [][NextLimiter]_vars

\* ------------------------------------------------------------- system
\* The composition the limiter is written for: the out channel of a process
\* is the channel ch a limiter returned, a consumer receives from dest, and a
\* kill handler receives from kill and calls Kill on the handle of the process
\* whose id the kill message carries, then receives again.
KillHandler == 1

\* The kill handler is at its receive from kill: it has not received yet, or
\* its Kill call has returned.
HandlerReceives ==
  \/ kpc[KillHandler] = "idle" /\ sent[KillCh] = << >>
  \/ kpc[KillHandler] = "returned"

\* kill <- &Message{...} of the limiter, received by the kill handler.
killReceived == HandlerReceives /\ limiterKill

\* The kill handler calls Kill on the handle whose process has the id of the
\* kill message it received.
HandlerKill(c) ==
  /\ sent[KillCh] # << >>
  /\ sent[KillCh][Len(sent[KillCh])].Id = id[c]
  /\ Kill(KillHandler, c)

\* The system as it starts, and as it is after the first msgLimit messages of
\* a started process, all forwarded to dest: a state the
\* first start reaches when the child goes on writing, from which the
\* messages around the limit are few steps away.
SystemStarts == {0, msgLimit}

\* What the child writes in one write call: the limiter, the consumer and the
\* kill handler never look at the body of a message.
SystemChunks == {"hello there\n"}

\* The bodies of the messages of kind s among the first n messages.
PastBodies(n, s) ==
  LET past == SelectSeq([k \in 1..n |-> FeedMessage(k)], LAMBDA m : m.Kind = s)
  IN [i \in 1..Len(past) |-> past[i].Body]

InitSystem ==
  /\ ln \in SystemStarts
  /\ uniqI = IF ln = 0 THEN 0 ELSE 1
  /\ pc = [c \in Calls |-> IF c \in Followed /\ ln > 0 THEN "returned" ELSE "idle"]
  /\ args = [c \in Calls |-> IF c \in Followed /\ ln > 0 THEN <<"./barbar">> ELSE << >>]
  /\ perr = [c \in Calls |-> Nil]
  /\ id = [c \in Calls |-> IF c \in Followed /\ ln > 0 THEN FeedId ELSE << >>]
  /\ uval = [c \in Calls |-> IF c \in Followed /\ ln > 0 THEN 0 ELSE -1]
  /\ Done = [c \in Calls |-> "open"]
  /\ run = [c \in Calls |-> IF c \in Followed /\ ln > 0 THEN "cmd" ELSE "nil"]
  /\ ret = [c \in Calls |-> IF c \in Followed /\ ln > 0 THEN "p" ELSE "none"]
  /\ child = [c \in Calls |-> IF c \in Followed /\ ln > 0 THEN "running" ELSE "none"]
  /\ cerr = [c \in Calls |-> Nil]
  /\ nwrites = [c \in Calls |-> 0]
  /\ pipe = [c \in Calls |-> [s \in Streams |-> << >>]]
  /\ relay = [c \in Calls |->
                IF c \in Followed /\ ln > 0
                THEN [s \in Streams |-> [st |-> "read", buf |-> ""]]
                ELSE [s \in Streams |-> NoRelay]]
  /\ writes = [c \in Calls |->
                 [s \in Streams |-> IF c \in Followed THEN PastBodies(ln, s) ELSE << >>]]
  /\ wrets = [c \in Calls |->
                [s \in Streams |->
                   IF c \in Followed
                   THEN [i \in 1..Len(PastBodies(ln, s)) |-> WriteReturn(PastBodies(ln, s)[i])]
                   ELSE << >>]]
  /\ wpc = [c \in Calls |-> IF c \in Followed /\ ln > 0 THEN "Wait" ELSE "none"]
  /\ werr = [c \in Calls |-> Nil]
  /\ out = [c \in Calls |-> IF c \in Followed THEN LimCh ELSE OutCh(c)]
  /\ closed = [ch \in Chans |-> FALSE]
  /\ kpc = [k \in Killers |-> "idle"]
  /\ ktarget = [k \in Killers |-> 0]
  /\ ksaw = [k \in Killers |-> "none"]
  /\ kills = [c \in Calls |-> 0]
  /\ lpc = "range"
  /\ lm = IF ln = 0 THEN NoMessage ELSE FeedMessage(ln)
  /\ sent = [ch \in Chans |->
               IF ch \in {LimCh, DestCh} THEN [k \in 1..ln |-> FeedMessage(k)]
               ELSE << >>]

NextSystem ==
  \/ \E c \in Followed, a \in ArgsSet : StartProcess(c, a)
  \/ \E c \in Followed : startNoArgs(c)
  \/ \E c \in Followed, e \in SpawnErrs : startFail(c, e)
  \/ \E c \in Followed : startOk(c)
  \/ \E c \in Followed : StartProcessEnd(c)
  \/ \E c \in Followed : StartProcessFail(c)
  \/ \E c \in Followed : StartProcessOk(c)
  \/ \E c \in Followed, s \in Streams, b \in SystemChunks : ChildWrite(c, s, b)
  \/ \E c \in Followed, e \in ExitErrs \cup {Nil} : ChildExit(c, e)
  \/ \E c \in Followed, s \in Streams, n \in 1..MaxWrites : RelayRead(c, s, n)
  \/ \E c \in Followed, s \in Streams : Write(c, s)
  \/ \E c \in Followed, s \in Streams : RelayEOF(c, s)
  \/ \E c \in Followed : wait(c)
  \/ \E c \in Followed : end(c)
  \/ \E c \in Followed : closeDone(c)
  \/ limiterDest
  \/ killReceived
  \/ \E c \in Followed : HandlerKill(c)
  \/ KillDone(KillHandler)

\* One process, its limiter, the consumer of dest and the kill handler.
SpecSystem == InitSystem /\ [][NextSystem]_vars

\* ------------------------------------------------------------- shared out
\* Several StartProcess calls are passed one out channel. The call followed
\* is given any args; the other calls are given no args or a command that
\* cannot be started.
SharedCh == OutCh(1)

InitShared ==
  /\ uniqI = 0
  /\ pc = [c \in Calls |-> "idle"]
  /\ args = [c \in Calls |-> << >>]
  /\ perr = [c \in Calls |-> Nil]
  /\ id = [c \in Calls |-> << >>]
  /\ uval = [c \in Calls |-> -1]
  /\ Done = [c \in Calls |-> "open"]
  /\ run = [c \in Calls |-> "nil"]
  /\ ret = [c \in Calls |-> "none"]
  /\ child = [c \in Calls |-> "none"]
  /\ cerr = [c \in Calls |-> Nil]
  /\ nwrites = [c \in Calls |-> 0]
  /\ pipe = [c \in Calls |-> [s \in Streams |-> << >>]]
  /\ relay = [c \in Calls |-> [s \in Streams |-> NoRelay]]
  /\ writes = [c \in Calls |-> [s \in Streams |-> << >>]]
  /\ wrets = [c \in Calls |-> [s \in Streams |-> << >>]]
  /\ wpc = [c \in Calls |-> "none"]
  /\ werr = [c \in Calls |-> Nil]
  /\ out = [c \in Calls |-> SharedCh]
  /\ closed = [ch \in Chans |-> FALSE]
  /\ sent = [ch \in Chans |-> << >>]
  /\ kpc = [k \in Killers |-> "idle"]
  /\ ktarget = [k \in Killers |-> 0]
  /\ ksaw = [k \in Killers |-> "none"]
  /\ kills = [c \in Calls |-> 0]
  /\ lpc = "range"
  /\ ln = 0
  /\ lm = NoMessage

NextShared ==
  \/ \E c \in Calls, a \in ArgsSet : StartProcess(c, a)
  \/ \E c \in Calls : startNoArgs(c)
  \/ \E c \in Calls, e \in SpawnErrs : startFail(c, e)
  \/ \E c \in Followed : startOk(c)
  \/ \E c \in Calls : StartProcessEnd(c)
  \/ \E c \in Calls : StartProcessFail(c)
  \/ \E c \in Followed : StartProcessOk(c)
  \/ \E c \in Followed, s \in Streams, b \in SystemChunks : ChildWrite(c, s, b)
  \/ \E c \in Followed, e \in ExitErrs \cup {Nil} : ChildExit(c, e)
  \/ \E c \in Followed, s \in Streams, n \in 1..MaxWrites : RelayRead(c, s, n)
  \/ \E c \in Followed, s \in Streams : Write(c, s)
  \/ \E c \in Followed, s \in Streams : RelayEOF(c, s)
  \/ \E c \in Followed : wait(c)
  \/ \E c \in Followed : end(c)
  \/ \E c \in Followed : closeDone(c)

\* StartProcess calls sharing one out channel, which a consumer receives from.
SpecShared == InitShared /\ [][NextShared]_vars

\* ------------------------------------------------------------- uniq
\* The values uniq's counter has reached when the calls followed begin: 0 for
\* the first calls of the program, and, after that many earlier calls, the
\* last value string(int) encodes in one byte, in two bytes and in three bytes
\* below the surrogate range, the first and the last surrogate value, the last
\* three-byte value and the last code point.
UniqStarts == {0, 127, 2047, 55295, 55296, 57343, 65535, 1114111}

InitIds == uniqI \in UniqStarts /\ InitRest

NextIds ==
  \/ \E c \in Calls, a \in ArgsSet : StartProcess(c, a)
  \/ \E c \in Calls : startNoArgs(c)
  \/ \E c \in Calls, e \in SpawnErrs : startFail(c, e)
  \/ \E c \in Calls : startOk(c)
  \/ \E c \in Calls : StartProcessEnd(c)
  \/ \E c \in Calls : StartProcessFail(c)
  \/ \E c \in Calls : StartProcessOk(c)
  \/ \E c \in Calls, e \in ExitErrs \cup {Nil} : ChildExit(c, e)
  \/ \E c \in Calls, s \in Streams : RelayEOF(c, s)
  \/ \E c \in Calls : wait(c)
  \/ \E c \in Calls : end(c)
  \/ \E c \in Calls : closeDone(c)

\* Concurrent StartProcess calls, each on an out channel of its own, whose
\* children write nothing.
SpecIds == InitIds /\ [][NextIds]_vars

\* ------------------------------------------------------------- fairness
\* The Go scheduler runs every goroutine that can take a step, and the
\* operating system answers cmd.Start and a kill.
Sched(c) ==
  /\ WF_vars(startNoArgs(c))
  /\ WF_vars(startOk(c) \/ \E e \in SpawnErrs : startFail(c, e))
  /\ WF_vars(StartProcessFail(c))
  /\ WF_vars(StartProcessOk(c))
  /\ \A s \in Streams : WF_vars(\E n \in 1..MaxWrites : RelayRead(c, s, n))
  /\ \A s \in Streams : WF_vars(RelayEOF(c, s))
  /\ WF_vars(wait(c))
  /\ WF_vars(closeDone(c))

\* Spec with the scheduling the runtime guarantees. Whether anybody receives
\* from out, and whether the child ever exits, is up to the environment.
SpecSched ==
  /\ Spec
  /\ \A c \in Followed : Sched(c)
  /\ \A k \in Killers : WF_vars(KillDone(k))

\* The out channel keeps being received from: a send that stays possible is taken.
OutReceived ==
  \A c \in Followed :
    /\ WF_vars(StartProcessEnd(c))
    /\ WF_vars(end(c))
    /\ \A s \in Streams : WF_vars(Write(c, s))

\* A running child eventually exits.
ChildExits == \A c \in Followed : WF_vars(\E e \in ExitErrs \cup {Nil} : ChildExit(c, e))

\* ------------------------------------------------------------- properties
\* The positions in the log of out[c] of the end messages carrying p.id.
EndsOf(c) ==
  {i \in 1..Len(sent[out[c]]) :
     sent[out[c]][i].Id = id[c] /\ sent[out[c]][i].Kind = "end"}

\* At most one end message carries the id of call c, and no message carrying
\* that id follows it.
EndIsLast(c) ==
  /\ Cardinality(EndsOf(c)) <= 1
  /\ \A i \in EndsOf(c) : \A j \in (i + 1)..Len(sent[out[c]]) :
       sent[out[c]][j].Id # id[c]

\* C1: for every process created by StartProcess, started or not, if out keeps
\* being received from and the child eventually exits, exactly one end message
\* with its id is sent on out, and no message with its id is sent after it.
C1_OneEndLast ==
  /\ [](\A c \in Followed : EndIsLast(c))
  /\ (OutReceived /\ ChildExits) =>
       \A c \in Followed : (pc[c] # "idle") ~> (Cardinality(EndsOf(c)) = 1)

\* A started process whose end message followed a stdout and a stderr message.
C1_Witness ==
  \E c \in Followed :
    /\ ret[c] = "p"
    /\ Cardinality(EndsOf(c)) = 1
    /\ \E i, j \in 1..Len(sent[out[c]]) :
         sent[out[c]][i].Kind = "stdout" /\ sent[out[c]][j].Kind = "stderr"

\* The stdout messages of the Write calls q of call c, in order.
StdoutMessages(c, q) == [i \in 1..Len(q) |-> Message(id[c], "stdout", q[i])]

C4_KillReturns ==
  OutReceived => \A k \in Killers : (kpc[k] = "Done") ~> (kpc[k] = "returned")

\* Two Kill calls on one handle have returned: one made while the child ran,
\* one made after it had exited.
C4_Witness ==
  \E k1, k2 \in Killers :
    /\ kpc[k1] = "returned" /\ kpc[k2] = "returned"
    /\ ktarget[k1] = ktarget[k2] /\ ret[ktarget[k1]] = "p"
    /\ ksaw[k1] = "running" /\ ksaw[k2] = "exited"

\* C4 as stated: a Kill call on a handle returns once the child has exited.
C4_Original ==
  \A k \in Killers :
    (kpc[k] = "Done" /\ child[ktarget[k]] = "exited") ~> (kpc[k] = "returned")

\* A StartProcess call that was given no arguments.
EmptyArgs(c) == pc[c] # "idle" /\ Len(args[c]) = 0

\* C5: a StartProcess call with empty args returns nil, spawns no child and
\* starts no wait task.
C5_EmptyArgsNoHandle ==
  \A c \in Followed :
    EmptyArgs(c) =>
      /\ ret[c] # "p"
      /\ pc[c] = "returned" => ret[c] = "nil"
      /\ child[c] = "none" /\ run[c] = "nil"
      /\ \A s \in Streams : relay[c][s] = NoRelay
      /\ wpc[c] = "none"

\* A call with empty args has returned.
C5_Witness == \E c \in Followed : EmptyArgs(c) /\ pc[c] = "returned"

\* C6 as amended: the only message a StartProcess call with empty args sends is
\* one end message with the body "No arguments found", sent on out before the
\* call closes out and returns.
C6_EmptyArgsEndOnly ==
  \A c \in Followed :
    EmptyArgs(c) =>
      /\ pc[c] \in {"start", "end"} => sent[out[c]] = << >> /\ ~closed[out[c]]
      /\ pc[c] \in {"close", "returned"} =>
           sent[out[c]] = <<Message(id[c], "end", "No arguments found")>>
      /\ pc[c] = "returned" => closed[out[c]]

\* A call with empty args has returned, having sent its end message.
C6_Witness ==
  \E c \in Followed : EmptyArgs(c) /\ pc[c] = "returned" /\ Len(sent[out[c]]) = 1

\* C6 as stated: a StartProcess call with empty args sends no message on out.
C6_Original == \A c \in Followed : EmptyArgs(c) => sent[out[c]] = << >>

\* C7: when cmd.Start fails, StartProcess sends one end message whose body is
\* the error, closes out only after it, returns nil, sends no stdout or stderr
\* message and never closes Done.
C7_SpawnFailure ==
  \A c \in Followed :
    perr[c] \in SpawnErrs =>
      /\ perr[c] # ""
      /\ sent[out[c]] \in {<< >>, <<Message(id[c], "end", perr[c])>>}
      /\ closed[out[c]] => Len(sent[out[c]]) = 1
      /\ ret[c] # "p"
      /\ pc[c] = "returned" => ret[c] = "nil" /\ closed[out[c]]
      /\ Done[c] = "open" /\ wpc[c] = "none"

\* A call whose spawn failed has returned.
C7_Witness == \E c \in Followed : perr[c] \in SpawnErrs /\ pc[c] = "returned"

\* C9: when a Kill call on a handle has returned, the wait task has observed
\* the child's exit and the end message of that process has been sent on out.
C9_KillAfterEnd ==
  \A k \in Killers :
    (kpc[k] = "returned" /\ ret[ktarget[k]] = "p") =>
      /\ child[ktarget[k]] = "exited"
      /\ wpc[ktarget[k]] = "done"
      /\ Cardinality(EndsOf(ktarget[k])) = 1

\* A Kill call made while the child was running has returned.
C9_Witness ==
  \E k \in Killers :
    kpc[k] = "returned" /\ ret[ktarget[k]] = "p" /\ ksaw[k] = "running"

\* C10: after a successful spawn StartProcess can return at once, whatever the
\* child does and whatever has been received from out; the wait task exists
\* exactly for the calls that returned a handle.
C10_ReturnsAtOnce ==
  \A c \in Followed :
    /\ pc[c] = "spawned" => ENABLED StartProcessOk(c)
    /\ wpc[c] # "none" <=> ret[c] = "p"

\* StartProcess has returned the handle while the child runs and its first
\* message waits to be received.
C10_Witness ==
  \E c \in Followed :
    /\ ret[c] = "p" /\ child[c] = "running" /\ wpc[c] = "Wait"
    /\ sent[out[c]] = << >>
    /\ \E s \in Streams : relay[c][s].st = "Write"

\* The process feeding the limiter goes on sending, up to its end message.
FeederRuns == WF_vars(Feed \/ \E e \in {Nil, KilledErr} : FeedEnd(e))

\* The dest and kill channels keep being received from.
DestKillReceived == WF_vars(limiterDest) /\ WF_vars(limiterKill)

\* The limiter has received more than msgLimit messages before any end message.
Over ==
  /\ Len(sent[LimCh]) > msgLimit
  /\ sent[LimCh][msgLimit + 1].Kind # "end"

\* The last message sent on dest is an end message.
EndForwarded ==
  /\ sent[DestCh] # << >>
  /\ sent[DestCh][Len(sent[DestCh])].Kind = "end"

\* With Over: dest has received the first msgLimit messages and nothing else
\* but, last, the end message; the one kill message, carrying the id of
\* message msgLimit + 1, is sent when that message is handled, and no other.
OverHandled ==
  /\ Len(sent[KillCh]) <= 1
  /\ sent[KillCh] # << >> => Len(sent[LimCh]) > msgLimit
  /\ Over =>
       /\ sent[KillCh] =
            IF lpc = "kill" /\ ln = msgLimit THEN << >>
            ELSE <<Message(sent[LimCh][msgLimit + 1].Id, "kill", "")>>
       /\ Cardinality({i \in 1..Len(sent[DestCh]) : sent[DestCh][i].Kind # "end"})
            <= msgLimit
       /\ sent[DestCh] =
            SubSeq(sent[LimCh], 1, msgLimit)
              \o (IF EndForwarded THEN <<sent[LimCh][Len(sent[LimCh])]>> ELSE << >>)

\* C3: a limiter fed more than msgLimit non-end messages before the end
\* message forwards at most msgLimit non-end messages, sends exactly one kill
\* message, at message msgLimit + 1, drops every non-end message after the
\* first msgLimit, and, if dest and kill keep being received from, still
\* forwards the end message.
C3_LimiterOverflow ==
  /\ []OverHandled
  /\ (FeederRuns /\ DestKillReceived) => (Over ~> EndForwarded)

\* Message msgLimit + 1 brought the kill, the next one was dropped, and the
\* end message has been forwarded.
C3_Witness ==
  /\ Over
  /\ Len(sent[LimCh]) >= msgLimit + 3
  /\ Len(sent[KillCh]) = 1
  /\ EndForwarded
  /\ Len(sent[DestCh]) = msgLimit + 1

\* C8: concurrent StartProcess calls receive distinct values from uniq, in
\* increasing order, and no two processes that are live together have the
\* same id.
C8_DistinctIds ==
  \A c1, c2 \in Calls :
    (c1 # c2 /\ pc[c1] # "idle" /\ pc[c2] # "idle") =>
      /\ uval[c1] # uval[c2]
      /\ uval[c1] < uniqI /\ uval[c2] < uniqI
      /\ (child[c1] = "running" /\ child[c2] = "running") => id[c1] # id[c2]

\* The part of C8 that holds: the values received from uniq are distinct and
\* below the counter.
C8_DistinctValues ==
  \A c1, c2 \in Calls :
    (c1 # c2 /\ pc[c1] # "idle" /\ pc[c2] # "idle") =>
      /\ uval[c1] # uval[c2]
      /\ uval[c1] < uniqI /\ uval[c2] < uniqI

\* Done of call c is closed only by the wait task, after its end message was
\* sent on out.
DoneAfterEnd(c) ==
  Done[c] = "closed" =>
    /\ ret[c] = "p" /\ wpc[c] = "done"
    /\ Cardinality(EndsOf(c)) = 1

\* A Kill call waiting on a closed Done can return.
DoneUnblocks(c) ==
  \A k \in Killers :
    (Done[c] = "closed" /\ kpc[k] = "Done" /\ ktarget[k] = c) => ENABLED KillDone(k)

\* In one step Done of call c goes from open to closed only by the wait task's
\* close(p.Done), which it never reaches again, and a closed Done stays closed.
DoneStep(c) ==
  /\ Done[c] = "closed" => Done'[c] = "closed"
  /\ Done'[c] # Done[c] => wpc[c] = "close" /\ wpc'[c] = "done"
  /\ wpc[c] = "done" => wpc'[c] = "done"

\* C11: for every successfully started process Done is closed at most once,
\* only after that process's end message has been sent on out, and once
\* closed it stays closed, so that every later wait on it, Kill's included,
\* returns without blocking.
C11_DoneOnceAfterEnd ==
  /\ [](\A c \in Followed : DoneAfterEnd(c) /\ DoneUnblocks(c))
  /\ [][\A c \in Followed : DoneStep(c)]_vars

\* Done is closed; one Kill call made after the child's exit has returned and
\* another is at <-p.Done.
C11_Witness ==
  \E c \in Followed, k1, k2 \in Killers :
    /\ Done[c] = "closed"
    /\ kpc[k1] = "returned" /\ ktarget[k1] = c /\ ksaw[k1] = "exited"
    /\ kpc[k2] = "Done" /\ ktarget[k2] = c

\* The end message the wait task of call c sent: the last message on out.
EndSent(c) == sent[out[c]][Len(sent[out[c]])]

\* C12: the body of the end message of a successfully started process is empty
\* if and only if the child exited cleanly; when the child exited with an
\* error (non-zero exit, or killed by a signal, Kill's included) the body is
\* the non-empty text of that error.
C12_EndBody ==
  \A c \in Followed :
    (ret[c] = "p" /\ wpc[c] \in {"close", "done"}) =>
      /\ EndSent(c).Kind = "end" /\ EndSent(c).Id = id[c]
      /\ EndSent(c).Body = "" <=> cerr[c] = Nil
      /\ cerr[c] # Nil =>
           /\ EndSent(c).Body = cerr[c] /\ Len(EndSent(c).Body) > 0
           /\ cerr[c] \in ExitErrs \cup {KilledErr}
      /\ \A k \in Killers :
           (ktarget[k] = c /\ ksaw[k] = "running") => EndSent(c).Body = KilledErr

\* The end message of a child that Kill ended has been sent, after a message
\* of its output.
C12_Witness ==
  \E c \in Followed, k \in Killers :
    /\ ret[c] = "p" /\ wpc[c] = "done"
    /\ ktarget[k] = c /\ ksaw[k] = "running"
    /\ Len(sent[out[c]]) > 1
    /\ EndSent(c).Body = KilledErr

\* The messages of kind s in the log of out[c], in order.
KindMessages(c, s) == SelectSeq(sent[out[c]], LAMBDA m : m.Kind = s)

\* C13: every Write call on a messageWriter has sent exactly one message of
\* the writer's id and kind whose body is the bytes written, and has then
\* returned the full byte count and a nil error: the messages of a relay are
\* its Write calls one for one, in order, the call still at its send excepted.
C13_WriteOneMessage ==
  \A c \in Followed, s \in Streams :
    /\ Len(writes[c][s]) = Len(wrets[c][s]) + (IF relay[c][s].st = "Write" THEN 1 ELSE 0)
    /\ relay[c][s].st = "Write" => relay[c][s].buf = writes[c][s][Len(writes[c][s])]
    /\ KindMessages(c, s) =
         [i \in 1..Len(wrets[c][s]) |-> Message(id[c], s, writes[c][s][i])]
    /\ \A i \in 1..Len(wrets[c][s]) : wrets[c][s][i] = <<Len(writes[c][s][i]), Nil>>

\* Both relays have completed a Write call, of different bytes and different
\* lengths.
C13_Witness ==
  \E c \in Followed :
    /\ Len(wrets[c]["stdout"]) = 1 /\ Len(wrets[c]["stderr"]) = 1
    /\ writes[c]["stdout"][1] # writes[c]["stderr"][1]
    /\ wrets[c]["stdout"][1][1] # wrets[c]["stderr"][1][1]

\* Killer k has called Kill on the nil handle of a call that failed to start.
KilledNil(k) == kpc[k] # "idle" /\ ret[ktarget[k]] = "nil"

\* The step in which killer k calls Kill on a nil handle is the whole call: it
\* has returned, and no child, Done channel, wait task or message changed.
KillNilStep(k) ==
  (kpc[k] = "idle" /\ kpc'[k] # "idle" /\ ret[ktarget'[k]] = "nil") =>
    /\ kpc'[k] = "returned"
    /\ UNCHANGED <<uniqI, pvars, cvars, wvars, chvars, ksaw, lvars>>

\* C14: Kill on a nil handle is a no-op: it returns at once, terminates no
\* process and does not wait on any Done channel.
C14_KillNilNoOp ==
  /\ [](\A k \in Killers :
         KilledNil(k) =>
           /\ kpc[k] = "returned" /\ ksaw[k] = "none"
           /\ child[ktarget[k]] = "none" /\ Done[ktarget[k]] = "open")
  /\ [](\A k \in Killers, c \in Followed :
         (kpc[k] = "idle" /\ ret[c] = "nil") => ENABLED KillNil(k, c))
  /\ [][\A k \in Killers : KillNilStep(k)]_vars

\* Two Kill calls on the nil handle of a failed start have returned, Done
\* still open.
C14_Witness ==
  \A k \in Killers :
    KilledNil(k) /\ kpc[k] = "returned" /\ Done[ktarget[k]] = "open"

\* The position of the first end message of q, 0 if it has none.
FirstEnd(q) ==
  LET E == {i \in 1..Len(q) : q[i].Kind = "end"}
  IN IF E = {} THEN 0 ELSE CHOOSE i \in E : \A j \in E : i <= j

\* What a limiter is to forward of the input q: the non-end messages among the
\* first msgLimit messages before the first end message, then that end message.
Forwardable(q) ==
  LET e == FirstEnd(q)
      before == IF e = 0 THEN Len(q) ELSE e - 1
      keep == IF before < msgLimit THEN before ELSE msgLimit
  IN SubSeq(q, 1, keep) \o (IF e = 0 THEN << >> ELSE <<q[e]>>)

\* The input the limiter has handled: all it received but the message it is
\* about to forward.
Handled == IF lpc = "dest" THEN SubSeq(sent[LimCh], 1, Len(sent[LimCh]) - 1)
           ELSE sent[LimCh]

\* Somebody sends one more message to the limiter.
LateSend ==
  /\ Send(LimCh, FeedMessage(Len(sent[LimCh]) + 1))
  /\ UNCHANGED <<uniqI, pvars, cvars, wvars, out, closed, kvars>>

\* C15: what a limiter has sent on dest is exactly the non-end messages among
\* the first msgLimit messages it received before the first end message,
\* unchanged and in order, followed by that end message if it received one;
\* having forwarded an end message it has returned: it receives nothing more
\* (a later send on its input finds no receiver), forwards nothing more and
\* sends no kill.
C15_LimiterForwards ==
  /\ [](sent[DestCh] = Forwardable(Handled))
  /\ [](EndForwarded =>
         /\ lpc = "returned"
         /\ ~ENABLED LateSend /\ ~ENABLED limiterDest /\ ~ENABLED limiterKill)
  /\ [][EndForwarded => UNCHANGED <<sent, lvars>>]_vars

\* A limiter that received two messages over msgLimit and then the end message
\* has forwarded msgLimit messages and the end message.
C15_Witness ==
  /\ lpc = "returned"
  /\ FirstEnd(sent[LimCh]) = msgLimit + 3
  /\ Len(sent[DestCh]) = msgLimit + 1
  /\ sent[DestCh][msgLimit] = sent[LimCh][msgLimit]
  /\ sent[DestCh][msgLimit + 1] = sent[LimCh][msgLimit + 3]

\* The limiter has received a message at position msgLimit + 1 (with n =
\* msgLimit) that is not an end message, and is past its send on kill.
KillDue ==
  /\ Len(sent[LimCh]) > msgLimit
  /\ sent[LimCh][msgLimit + 1].Kind # "end"
  /\ ~(lpc = "kill" /\ ln = msgLimit)

\* C16: a limiter has sent a kill message if and only if the message it
\* received at position msgLimit + 1 is not an end message: none when at most
\* msgLimit messages came before the end message, none when message
\* msgLimit + 1 is the end message, which is forwarded; there is one kill
\* message, and it carries the id of the message that brought it.
C16_KillIffOver ==
  /\ sent[KillCh] # << >> <=> KillDue
  /\ KillDue => sent[KillCh] = <<Message(sent[LimCh][msgLimit + 1].Id, "kill", "")>>
  /\ lpc = "kill" => ln = msgLimit /\ lm = sent[LimCh][msgLimit + 1] /\ lm.Kind # "end"
  /\ (Len(sent[LimCh]) > msgLimit /\ sent[LimCh][msgLimit + 1].Kind = "end")
       => lpc \in {"dest", "returned"} /\ Forwardable(sent[LimCh]) = sent[LimCh]

\* Message msgLimit + 1 was the end message: it has been forwarded and no kill
\* message was sent.
C16_Witness ==
  /\ lpc = "returned"
  /\ FirstEnd(sent[LimCh]) = msgLimit + 1
  /\ sent[DestCh] = sent[LimCh]
  /\ sent[KillCh] = << >>

\* A step of the system that waits for nothing outside it: of the goroutines
\* of StartProcess, the copies and wait, with the limiter receiving their
\* sends; of the limiter with the consumer receiving from dest and the kill
\* handler receiving from kill; of the kill handler.
SystemStep ==
  \/ \E c \in Followed :
       \/ startNoArgs(c) \/ startOk(c) \/ \E e \in SpawnErrs : startFail(c, e)
       \/ StartProcessEnd(c) \/ StartProcessFail(c) \/ StartProcessOk(c)
       \/ \E s \in Streams : RelayEOF(c, s) \/ Write(c, s)
                               \/ \E n \in 1..MaxWrites : RelayRead(c, s, n)
       \/ wait(c) \/ end(c) \/ closeDone(c)
       \/ HandlerKill(c)
  \/ limiterDest
  \/ killReceived
  \/ KillDone(KillHandler)

\* The scheduling of the system: as long as one of its goroutines can take a
\* step, one of them does.
SystemRuns == WF_vars(SystemStep)

\* The process's end message is on dest, Done is closed and the kill
\* handler's Kill call has returned.
OverflowSettled ==
  /\ EndForwarded
  /\ \A c \in Followed : Done[c] = "closed"
  /\ kpc[KillHandler] = "returned"

\* With Over, dest has the first msgLimit messages and, after them, nothing
\* but the end message of the process, whose body is what the child's exit
\* gave: the error of the kill if Kill found the child running.
OverflowDest ==
  \A c \in Followed :
    Over =>
      /\ sent[DestCh] =
           SubSeq(sent[LimCh], 1, msgLimit)
             \o (IF EndForwarded THEN <<EndMessage(id[c], cerr[c])>> ELSE << >>)
      /\ (EndForwarded /\ ksaw[KillHandler] = "running")
           => sent[DestCh][msgLimit + 1].Body = KilledErr

\* The limiter waits for the kill handler to receive while the handler waits
\* in Kill for Done, which waits for the limiter to receive.
CircularWait == lpc = "kill" /\ kpc[KillHandler] = "Done"

\* C17 as amended: in the system of a process, its limiter, a consumer of
\* dest and a kill handler, when the process exceeds the limit dest receives
\* nothing beyond the first msgLimit messages but the process's own end
\* message, whose body is the error of the child's exit, or empty when the
\* child exited cleanly before Kill reached it; no circular wait of limiter,
\* Kill and wait task is reachable; and the end message reaches dest, Done is
\* closed and the handler's Kill call returns.
C17_OverflowEnds ==
  /\ [](OverflowDest /\ ~CircularWait)
  /\ []((Over /\ ~OverflowSettled) => ENABLED NextSystem)
  /\ SystemRuns => (Over ~> OverflowSettled)

\* The process sent two messages over the limit and its end message; Kill
\* found the child running, and all is settled: the end message on dest says so.
C17_Witness ==
  /\ Over /\ OverflowSettled
  /\ Len(sent[LimCh]) = msgLimit + 3
  /\ ksaw[KillHandler] = "running"
  /\ sent[DestCh][msgLimit + 1].Body = KilledErr

\* C17 as stated: the end message that reaches dest after an overflow has an
\* error body.
C17_Original ==
  (Over /\ EndForwarded) => sent[DestCh][Len(sent[DestCh])].Body # ""

\* A channel is closed in one step only by a StartProcess call whose start
\* failed, after its end message, and it is that call's out channel.
CloseStep(ch) ==
  closed'[ch] # closed[ch] =>
    \E c \in Followed :
      /\ out[c] = ch /\ perr[c] # Nil
      /\ pc[c] = "close" /\ pc'[c] = "returned" /\ ret'[c] = "nil"

\* C19: out is closed only on the start-failure path: for a successfully
\* started process neither StartProcess nor the wait task nor Kill closes it,
\* also not after the end message was sent and Done was closed; and the
\* limiter never closes dest or kill.
C19_OutClosedOnFailureOnly ==
  /\ [](\A c \in Followed :
         /\ (run[c] = "cmd" \/ ret[c] = "p" \/ wpc[c] # "none") => ~closed[out[c]]
         /\ closed[out[c]] => perr[c] # Nil /\ ret[c] = "nil")
  /\ [](~closed[DestCh] /\ ~closed[KillCh])
  /\ [][\A ch \in Chans : CloseStep(ch)]_vars

\* A started process has ended, after an overflow and the handler's Kill: its
\* end message is on dest, Done is closed, and no channel is closed.
C19_Witness ==
  /\ \A c \in Followed : ret[c] = "p" /\ wpc[c] = "done" /\ Done[c] = "closed"
  /\ lpc = "returned" /\ kpc[KillHandler] = "returned"
  /\ \A ch \in Chans : ~closed[ch]

\* The kinds of the messages the package sends on out.
OutKinds == {"stdout", "stderr", "end"}

\* Every message in the log q has id i and a kind in K.
AllOf(q, i, K) == \A j \in 1..Len(q) : q[j].Id = i /\ q[j].Kind \in K

\* C20: every message a process has sent on its out channel carries the id
\* the process was created with and a kind among stdout, stderr and end, never
\* run or kill; the limiter sends nothing but kill messages on kill, and
\* every message on dest is one it received on its input.
C20_MessageKinds ==
  \A c \in Followed :
    /\ AllOf(sent[out[c]], id[c], OutKinds)
    /\ pc[c] # "idle" => id[c] = IntToString(uval[c])
    /\ AllOf(sent[KillCh], id[c], {"kill"})
    /\ AllOf(sent[DestCh], id[c], OutKinds)
    /\ Len(sent[DestCh]) <= Len(sent[LimCh])
    /\ \A j \in 1..Len(sent[DestCh]) :
         sent[DestCh][j] = sent[LimCh][IF sent[DestCh][j].Kind = "end"
                                       THEN FirstEnd(sent[LimCh]) ELSE j]

\* The process has sent a stdout and a stderr message over the limit and its
\* end message; the kill message is on kill and the end message on dest.
C20_Witness ==
  /\ Len(sent[LimCh]) = msgLimit + 3
  /\ {sent[LimCh][msgLimit + 1].Kind, sent[LimCh][msgLimit + 2].Kind} = Streams
  /\ sent[LimCh][msgLimit + 3].Kind = "end"
  /\ Len(sent[KillCh]) = 1
  /\ Len(sent[DestCh]) = msgLimit + 1

\* A goroutine of call c is at a send on out, a relay's Write or p.end, and
\* out is closed: the send panics.
SendOnClosed(c) ==
  /\ closed[out[c]]
  /\ \/ pc[c] = "end"
     \/ wpc[c] = "end"
     \/ \E s \in Streams : relay[c][s].st = "Write"

\* C18: when several StartProcess calls share one out channel, no relay write
\* and no end message of any process is attempted on out after it was closed,
\* also when one call fails to start while another process is live.
C18_NoSendOnClosed == \A c \in Calls : ~SendOnClosed(c)

====
